---- MODULE Spec2Model ----
(***************************************************************************)
(* Wave function collapse generators of the repository:                    *)
(*   - the P-parameterized Generator (utility/generation/wfc.rs) over      *)
(*     TransformedTile (utility/generation/tile.rs) stored in the          *)
(*     collections Grid (collections/grid.rs);                             *)
(*   - the legacy Generator (utility/wfc.rs) over Tile / TileSet stored in *)
(*     the utility Grid (utility/grid.rs).                                 *)
(* A position is <<x, y>> counted from 0; a grid is its vector of rows,    *)
(* each row the vector of its cells' candidate lists.                      *)
(***************************************************************************)
EXTENDS Integers, Sequences, FiniteSets, TLC

(***************************************************************************)
(* Bounds of the model.                                                    *)
(***************************************************************************)
\* largest number of cells of a grid (and largest width and height)
MaxCells == 4
\* largest number of tiles handed to Generator::new
MaxLongCat == 3
MaxAdds == 2
MaxUsize == 3
MaxSide == 2
MaxCat == 2

(***************************************************************************)
(* Helpers for Vec / array operations of the standard library.             *)
(***************************************************************************)
\* slice::rotate_right(k): the element at index i moves to index i + k
RotateRight(arr, k) ==
  [i \in 1..Len(arr) |-> arr[((i - 1 + Len(arr) - (k % Len(arr))) % Len(arr)) + 1]]

\* slice::swap(a, b) with 1-based positions
Swap(arr, a, b) ==
  [i \in 1..Len(arr) |-> IF i = a THEN arr[b] ELSE IF i = b THEN arr[a] ELSE arr[i]]

\* slice::reverse
Reverse(s) == [i \in 1..Len(s) |-> s[Len(s) + 1 - i]]

\* slice::contains
Contains(s, e) == \E i \in 1..Len(s) : s[i] = e

\* Vec::retain(|t| t != e)
RECURSIVE RetainNe(_, _)
RetainNe(s, e) ==
  IF s = <<>> THEN <<>>
  ELSE IF Head(s) # e THEN <<Head(s)>> \o RetainNe(Tail(s), e)
  ELSE RetainNe(Tail(s), e)

\* Vec::retain(|t| t == e)
RECURSIVE RetainEq(_, _)
RetainEq(s, e) ==
  IF s = <<>> THEN <<>>
  ELSE IF Head(s) = e THEN <<Head(s)>> \o RetainEq(Tail(s), e)
  ELSE RetainEq(Tail(s), e)

\* Vec::dedup: removes consecutive repeated elements, keeping the first of a run
RECURSIVE Dedup(_)
Dedup(s) ==
  IF Len(s) <= 1 THEN s
  ELSE IF s[Len(s)] = s[Len(s) - 1] THEN Dedup(SubSeq(s, 1, Len(s) - 1))
  ELSE Append(Dedup(SubSeq(s, 1, Len(s) - 1)), s[Len(s)])

(***************************************************************************)
(* utility/generation/tile.rs: Side, Socket, Tile, TransformedTile.        *)
(***************************************************************************)
Top == 0
Left == 1
Right == 2
Bottom == 3

\* Side::opposite turning a quarter instead of a half
opposite_clockwise(side) ==
  IF side = Top THEN Right
  ELSE IF side = Right THEN Bottom
  ELSE IF side = Bottom THEN Left
  ELSE Top

\* Side::opposite returning the side itself
opposite_same(side) == side

\* Side::opposite
opposite(side) ==
  IF side = Top THEN Bottom
  ELSE IF side = Left THEN Right
  ELSE IF side = Right THEN Left
  ELSE Top

relative_x(start, end) == IF start > end THEN Right ELSE Left

relative_y(start, end) == IF start > end THEN Bottom ELSE Top

relative(start, end) ==
  IF start[1] = end[1] THEN relative_y(start[2], end[2])
  ELSE relative_x(start[1], end[1])

\* Socket::reversed shifting the nodes by one place instead of reversing them
reversed_shifted(socket) == RotateRight(socket, 1)

\* Socket::reversed
reversed(socket) == Reverse(socket)

\* Tile::socket_on
socket_on(tile, side) == tile.sockets[side + 1]

\* Tile::connects_to without the comparison of the layers
connects_to_noLayer(self, other, side) ==
  socket_on(self, side) = socket_on(other, opposite(side))

\* Tile::connects_to comparing with the mirrored socket of the other tile
connects_to_mirrored(self, other, side) ==
  /\ self.layer = other.layer
  /\ socket_on(self, side) = reversed(socket_on(other, opposite(side)))

\* Tile::connects_to
connects_to(self, other, side) ==
  /\ self.layer = other.layer
  /\ socket_on(self, side) = socket_on(other, opposite(side))

\* TransformedTile::rotated
rotated(tt) ==
  [tt.tile EXCEPT !.sockets = RotateRight(tt.tile.sockets, tt.transform.rotation)]

\* TransformedTile::flipped
flipped(tt) ==
  LET s0 == tt.tile.sockets
      s1 == IF tt.transform.flip_x
            THEN LET sw == Swap(s0, Left + 1, Right + 1)
                 IN  [sw EXCEPT ![Top + 1] = reversed(sw[Top + 1]),
                                ![Bottom + 1] = reversed(sw[Bottom + 1])]
            ELSE s0
      s2 == IF tt.transform.flip_y
            THEN LET sw == Swap(s1, Top + 1, Bottom + 1)
                 IN  [sw EXCEPT ![Left + 1] = reversed(sw[Left + 1]),
                                ![Right + 1] = reversed(sw[Right + 1])]
            ELSE s1
  IN  [tt.tile EXCEPT !.sockets = s2]

\* TransformedTile::transformed applying the rotation before the flips
transformed_rotateFirst(tt) == flipped([tile |-> rotated(tt), transform |-> tt.transform])

\* TransformedTile::transformed
transformed(tt) == rotated([tile |-> flipped(tt), transform |-> tt.transform])

(***************************************************************************)
(* utility/generation.rs: Side, with the discriminants of tile.rs          *)
(* (Top = 0, Left = 1, Right = 2, Bottom = 3).                             *)
(***************************************************************************)
\* Side::opposite
generation_opposite(side) ==
  IF side = Top THEN Bottom
  ELSE IF side = Left THEN Right
  ELSE IF side = Right THEN Left
  ELSE Top

\* Side::relative_x
generation_relative_x(start, end) == IF start <= end THEN Left ELSE Right

\* Side::relative_y
generation_relative_y(start, end) == IF start <= end THEN Top ELSE Bottom

\* Side::relative handing the x coordinates to relative_y
generation_relative_sameAxis(start, end) ==
  IF start[1] = end[1] THEN generation_relative_y(start[1], end[1])
  ELSE generation_relative_x(start[1], end[1])

\* Side::relative
generation_relative(start, end) ==
  IF start[1] = end[1] THEN generation_relative_y(start[2], end[2])
  ELSE generation_relative_x(start[1], end[1])

(***************************************************************************)
(* utility/wfc.rs: Side, Socket, Tile, TileSet of the legacy generator.    *)
(***************************************************************************)
legacy_Left == 0
legacy_Top == 1
legacy_Right == 2
legacy_Bottom == 3

legacy_opposite(side) ==
  IF side = legacy_Left THEN legacy_Right
  ELSE IF side = legacy_Top THEN legacy_Bottom
  ELSE IF side = legacy_Right THEN legacy_Left
  ELSE legacy_Top

legacy_relative_x(start, end) == IF start > end THEN legacy_Left ELSE legacy_Right

legacy_relative_y(start, end) == IF start > end THEN legacy_Top ELSE legacy_Bottom

legacy_relative(start, end) ==
  IF start[1] = end[1] THEN legacy_relative_y(start[2], end[2])
  ELSE legacy_relative_x(start[1], end[1])

\* Socket::flipped: Socket(right, center, left)
legacy_Socket_flipped(socket) == <<socket[3], socket[2], socket[1]>>

\* Tile::socket
legacy_socket(tile, side) == tile.sockets[side + 1]

\* Tile::rotated
legacy_rotated(tile) ==
  [tile EXCEPT !.sockets = RotateRight(tile.sockets, tile.rotation),
               !.rotation = 0]

\* Tile::flipped
legacy_flipped(tile) ==
  LET t1 == IF tile.flip_x
            THEN LET sw == Swap(tile.sockets, legacy_Left + 1, legacy_Right + 1)
                     st == [sw EXCEPT ![legacy_Top + 1] = legacy_Socket_flipped(sw[legacy_Top + 1])]
                 IN  [tile EXCEPT
                        !.sockets = [st EXCEPT ![legacy_Bottom + 1] =
                                        legacy_Socket_flipped(st[legacy_Bottom + 1])],
                        !.flip_x = FALSE]
            ELSE tile
      t2 == IF t1.flip_y
            THEN LET sw == Swap(t1.sockets, legacy_Top + 1, legacy_Bottom + 1)
                     st == [sw EXCEPT ![legacy_Left + 1] = legacy_Socket_flipped(sw[legacy_Left + 1])]
                 IN  [t1 EXCEPT
                        !.sockets = [st EXCEPT ![legacy_Right + 1] =
                                        legacy_Socket_flipped(st[legacy_Right + 1])],
                        !.flip_y = FALSE]
            ELSE t1
  IN  t2

\* Tile::transformed
legacy_transformed(tile) == legacy_flipped(legacy_rotated(tile))

\* Tile::connects
legacy_connects(self, tile, side) ==
  legacy_socket(legacy_transformed(self), side)
    = legacy_socket(legacy_transformed(tile), legacy_opposite(side))

\* TileSet::connects
TileSet_connects(set, tile, side) ==
  \E i \in 1..Len(set) : legacy_connects(set[i], tile, side)

\* TileSet::remove
TileSet_remove(set, tile) == RetainNe(set, tile)

\* TileSet::collapse
TileSet_collapse(set, tile) == RetainEq(set, tile)

\* TileSet::is_collapsed
TileSet_is_collapsed(set) == Len(set) = 1

\* TileSet::is_empty comparing the length with 1 instead of 0
TileSet_is_empty_offByOne(set) == Len(set) = 1

\* TileSet::is_empty
TileSet_is_empty(set) == Len(set) = 0

(***************************************************************************)
(* The tiles the catalogs are drawn from.  P-parameterized tiles use       *)
(* sockets of P = 2 symbols; legacy sockets hold three nodes <<id, layer>>.*)
(***************************************************************************)
Sym00 == <<0, 0>>
Sym10 == <<1, 0>>

BasePlain == [id |-> 0, layer |-> 0, sockets |-> <<Sym00, Sym00, Sym00, Sym00>>, weight |-> 1]
BaseEdge  == [id |-> 1, layer |-> 0, sockets |-> <<Sym00, Sym00, Sym10, Sym00>>, weight |-> 1]

NoTransform == [rotation |-> 0, flip_x |-> FALSE, flip_y |-> FALSE]

\* all sockets equal, layer 0
PZ == [tile |-> BasePlain, transform |-> NoTransform]
\* one marked socket on the Right side
PA == [tile |-> BaseEdge, transform |-> NoTransform]
\* the same sockets flipped across x (the marked socket is on the Left side), weight 0
PB == [tile |-> [BaseEdge EXCEPT !.weight = 0],
       transform |-> [NoTransform EXCEPT !.flip_x = TRUE]]
\* all sockets equal, layer 1, weight 0
PC == [tile |-> [BasePlain EXCEPT !.id = 2, !.layer = 1, !.weight = 0],
       transform |-> NoTransform]
\* the marked base rotated by a quarter turn: the marked socket is on the Bottom side
PD == [tile |-> [BaseEdge EXCEPT !.id = 3],
       transform |-> [NoTransform EXCEPT !.rotation = 1]]

ParamTiles == {PZ, PA, PB, PC, PD}

Node0 == <<0, 0>>
Node1 == <<1, 0>>
NodeL == <<0, 1>>
Sock0 == <<Node0, Node0, Node0>>
Sock1 == <<Node1, Node0, Node0>>
SockL == <<NodeL, NodeL, NodeL>>

LZ == [id |-> 0, sockets |-> <<Sock0, Sock0, Sock0, Sock0>>, rotation |-> 0,
       flip_x |-> FALSE, flip_y |-> FALSE, weight |-> 1]
\* one marked socket on the Right side
LA == [LZ EXCEPT !.id = 1, !.sockets = <<Sock0, Sock0, Sock1, Sock0>>]
\* the same tile flipped across x, weight 0
LB == [LA EXCEPT !.flip_x = TRUE, !.weight = 0]
\* all nodes on layer 1, weight 0
LC == [LZ EXCEPT !.id = 2, !.sockets = <<SockL, SockL, SockL, SockL>>, !.weight = 0]
\* the marked tile rotated once: the marked socket is on the Bottom side
LD == [LA EXCEPT !.id = 3, !.rotation = 1]

LegacyTiles == {LZ, LA, LB, LC, LD}

\* all sequences over S of length at most n
RECURSIVE SeqsUpTo(_, _)
SeqsUpTo(S, n) ==
  IF n = 0 THEN {<<>>}
  ELSE LET shorter == SeqsUpTo(S, n - 1)
       IN  shorter \cup {Append(s, e) : s \in shorter, e \in S}

(***************************************************************************)
(* collections/grid.rs: Grid<T> is Vec<Vec<Option<T>>>, rows first.  The   *)
(* generator fills every cell with Some(list), so a cell is its list.      *)
(***************************************************************************)
\* Grid::new_with building `width` rows of `height` cells
Grid_new_with_swapped(w, h, value) == [y \in 1..w |-> [x \in 1..h |-> value]]

\* Grid::new_with
Grid_new_with(w, h, value) == [y \in 1..h |-> [x \in 1..w |-> value]]

\* Grid::height
Grid_height(g) == Len(g)

\* Grid::width
Grid_width(g) == IF Grid_height(g) >= 1 THEN Len(g[1]) ELSE 0

\* Grid::includes
Grid_includes(g, idx) == idx[1] < Grid_width(g) /\ idx[2] < Grid_height(g)

\* Grid::get / Index<Idx>
Grid_get(g, idx) == g[idx[2] + 1][idx[1] + 1]

Grid_put_wholeRow(g, idx, value) ==
  [g EXCEPT ![idx[2] + 1] = [x \in 1..Len(g[idx[2] + 1]) |-> value]]

\* the grid with cell idx replaced (the write through Grid::get_mut)
Grid_put(g, idx, value) == [g EXCEPT ![idx[2] + 1][idx[1] + 1] = value]

\* Iter::next, unrolled from a starting index: the items Grid::iter yields
RECURSIVE Iter_next(_, _)
Iter_next(g, idx) ==
  IF idx[1] < Grid_width(g) /\ idx[2] < Grid_height(g)
  THEN <<g[idx[2] + 1][idx[1] + 1]>>
         \o Iter_next(g, IF idx[1] < Grid_width(g)
                         THEN <<idx[1] + 1, idx[2]>>
                         ELSE <<0, idx[2] + 1>>)
  ELSE <<>>

\* Grid::iter
Grid_iter(g) == Iter_next(g, <<0, 0>>)

\* Grid::enumerate: the indices in the order rows().enumerate() x row.iter().enumerate()
Grid_enumerate(g) ==
  [k \in 1..(Grid_width(g) * Grid_height(g)) |->
     <<(k - 1) % Grid_width(g), (k - 1) \div Grid_width(g)>>]

(***************************************************************************)
(* utility/generation/wfc.rs: the P-parameterized Generator.               *)
(***************************************************************************)
\* Generator::new
Generator_new(w, h, ts) == Grid_new_with(w, h, Dedup(ts))

\* Generator::is_collapsed
is_collapsed(g) == \A i \in 1..Len(Grid_iter(g)) : Len(Grid_iter(g)[i]) = 1

\* Generator::is_any_empty
is_any_empty(g) == \E i \in 1..Len(Grid_iter(g)) : Len(Grid_iter(g)[i]) = 0

\* usize::saturating_sub(1)
SatSub1(n) == IF n = 0 THEN 0 ELSE n - 1

\* Generator::adjacent without the neighbours above and below
adjacent_horizontalOnly(g, idx) ==
  LET cands == << <<SatSub1(idx[1]), idx[2]>>, <<idx[1] + 1, idx[2]>> >>
      Keep(c) == c # idx /\ c[1] < Grid_width(g) /\ c[2] < Grid_height(g)
  IN  SelectSeq(cands, Keep)

\* Generator::adjacent
adjacent(g, idx) ==
  LET cands == << <<SatSub1(idx[1]), idx[2]>>, <<idx[1] + 1, idx[2]>>,
                  <<idx[1], SatSub1(idx[2])>>, <<idx[1], idx[2] + 1>> >>
      Keep(c) == c # idx /\ c[1] < Grid_width(g) /\ c[2] < Grid_height(g)
  IN  SelectSeq(cands, Keep)

\* Generator::next_index without the filter on the length
next_index_noFilter(g) ==
  LET en == Grid_enumerate(g)
      all == 1..Len(en)
      minimal == {k \in all : \A j \in all : Len(Grid_get(g, en[k])) <= Len(Grid_get(g, en[j]))}
  IN  {en[k] : k \in minimal}

\* Generator::next_index: the indices the random draw can return; the empty
\* set stands for Err(MissingSet)
next_index(g) ==
  LET en == Grid_enumerate(g)
      more == {k \in 1..Len(en) : Len(Grid_get(g, en[k])) > 1}
      minimal == {k \in more : \A j \in more : Len(Grid_get(g, en[k])) <= Len(Grid_get(g, en[j]))}
  IN  {en[k] : k \in minimal}

\* Generator::collapse sampling uniformly, whatever the weights
collapse_choices_anyWeight(set) == 1..Len(set)

\* WeightedIndex::new over the weights of a set fails iff their sum is zero;
\* the sample is an index of positive weight
collapse_choices(set) == {i \in 1..Len(set) : set[i].tile.weight > 0}

\* Generator::collapse inserting the sampled tile at the front without draining
collapse_set_noDrain(set, i) == <<set[i]>> \o set

\* Generator::collapse on a non-empty set with the sampled index:
\* set.swap(0, index); set.drain(1..)
collapse_set(set, i) == SubSeq(Swap(set, 1, i), 1, 1)

\* Generator::propogate removing unsupported tiles without pushing the neighbour
RECURSIVE propogate_tiles_noPush(_, _, _, _, _, _)
propogate_tiles_noPush(st, clone, k, set, side, adj) ==
  IF k > Len(clone) THEN st
  ELSE LET tile == clone[k]
           supported == \E i \in 1..Len(set) :
                          connects_to(transformed(set[i]), transformed(tile), side)
           st2 == IF supported THEN st
                  ELSE [other |-> RetainNe(st.other, tile), stack |-> st.stack]
       IN  propogate_tiles_noPush(st2, clone, k + 1, set, side, adj)

\* Generator::propogate pushing the neighbour for every tile of the clone, removed
\* or not
RECURSIVE propogate_tiles_alwaysPush(_, _, _, _, _, _)
propogate_tiles_alwaysPush(st, clone, k, set, side, adj) ==
  IF k > Len(clone) THEN st
  ELSE LET tile == clone[k]
           supported == \E i \in 1..Len(set) :
                          connects_to(transformed(set[i]), transformed(tile), side)
           st2 == [other |-> IF supported THEN st.other ELSE RetainNe(st.other, tile),
                   stack |-> IF Contains(st.stack, adj) THEN st.stack
                             ELSE Append(st.stack, adj)]
       IN  propogate_tiles_alwaysPush(st2, clone, k + 1, set, side, adj)

\* the loop `for tile in other.clone()` of Generator::propogate, from the k-th
\* tile of the clone on; st = [other, stack]
RECURSIVE propogate_tiles(_, _, _, _, _, _)
propogate_tiles(st, clone, k, set, side, adj) ==
  IF k > Len(clone) THEN st
  ELSE LET tile == clone[k]
           supported == \E i \in 1..Len(set) :
                          connects_to(transformed(set[i]), transformed(tile), side)
           st2 == IF supported THEN st
                  ELSE [other |-> RetainNe(st.other, tile),
                        stack |-> IF Contains(st.stack, adj) THEN st.stack
                                  ELSE Append(st.stack, adj)]
       IN  propogate_tiles(st2, clone, k + 1, set, side, adj)

\* Generator::propogate storing the filtered list in the popped cell instead of
\* the neighbour
RECURSIVE propogate_adjacent_wrongCell(_, _, _, _, _)
propogate_adjacent_wrongCell(gs, adjs, k, set, index) ==
  IF k > Len(adjs) THEN gs
  ELSE LET adj == adjs[k]
           side == relative(index, adj)
           other == Grid_get(gs.grid, adj)
           st == propogate_tiles([other |-> other, stack |-> gs.stack],
                                 other, 1, set, side, adj)
       IN  propogate_adjacent_wrongCell([grid |-> Grid_put(gs.grid, index, st.other),
                                         stack |-> st.stack],
                                        adjs, k + 1, set, index)

\* the loop `for adjacent in self.adjacent(index)` of Generator::propogate;
\* gs = [grid, stack]
RECURSIVE propogate_adjacent(_, _, _, _, _)
propogate_adjacent(gs, adjs, k, set, index) ==
  IF k > Len(adjs) THEN gs
  ELSE LET adj == adjs[k]
           side == relative(index, adj)
           other == Grid_get(gs.grid, adj)
           st == propogate_tiles([other |-> other, stack |-> gs.stack],
                                 other, 1, set, side, adj)
       IN  propogate_adjacent([grid |-> Grid_put(gs.grid, adj, st.other),
                               stack |-> st.stack],
                              adjs, k + 1, set, index)

\* one iteration of `while let Some(index) = stack.pop()` of Generator::propogate
propogate_pop(g, stk) ==
  LET index == stk[Len(stk)]
      rest == SubSeq(stk, 1, Len(stk) - 1)
      set == Grid_get(g, index)
  IN  propogate_adjacent([grid |-> g, stack |-> rest], adjacent(g, index), 1, set, index)

\* the grid returned by Generator::run: map_some(|s| s[0].transformed()) visits
\* every cell of every row
run_output(g) == [y \in 1..Len(g) |-> [x \in 1..Len(g[y]) |-> transformed(g[y][x][1])]]

\* s[0] panics on an empty candidate list
run_output_panics(g) == \E y \in 1..Len(g) : \E x \in 1..Len(g[y]) : Len(g[y][x]) = 0

(***************************************************************************)
(* utility/grid.rs: Grid<T> is Vec<Vec<T>>, rows first.                    *)
(***************************************************************************)
\* Grid::new building `width` rows of `height` cells
legacy_Grid_new_swapped(w, h, fill) == [y \in 1..w |-> [x \in 1..h |-> fill]]

\* Grid::new
legacy_Grid_new(w, h, fill) == [y \in 1..h |-> [x \in 1..w |-> fill]]

\* Grid::height
legacy_Grid_height(g) == Len(g)

\* Grid::width
legacy_Grid_width(g) == IF Len(g) >= 1 THEN Len(g[1]) ELSE 0

\* Grid::contains_coords accepting x == width and y == height
contains_coords_inclusive(g, x, y) == x <= legacy_Grid_width(g) /\ y <= legacy_Grid_height(g)

\* Grid::contains_coords
contains_coords(g, x, y) == x < legacy_Grid_width(g) /\ y < legacy_Grid_height(g)

\* Grid::get on coordinates inside the grid
legacy_Grid_get(g, pos) == g[pos[2] + 1][pos[1] + 1]

\* the grid with cell pos replaced (the write through Grid::get_mut)
legacy_Grid_put(g, pos, value) == [g EXCEPT ![pos[2] + 1][pos[1] + 1] = value]

\* Grid::iter: the positions in the order rows x columns
legacy_Grid_iter(g) ==
  [k \in 1..(legacy_Grid_width(g) * legacy_Grid_height(g)) |->
     <<(k - 1) % legacy_Grid_width(g), (k - 1) \div legacy_Grid_width(g)>>]

(***************************************************************************)
(* utility/wfc.rs: the legacy Generator.                                   *)
(***************************************************************************)
\* Generator::new
legacy_Generator_new(ts, w, h) == legacy_Grid_new(w, h, Dedup(ts))

\* Generator::is_collapsed
legacy_is_collapsed(g) ==
  \A k \in 1..Len(legacy_Grid_iter(g)) :
    TileSet_is_collapsed(legacy_Grid_get(g, legacy_Grid_iter(g)[k]))

\* Generator::is_empty
legacy_is_empty(g) ==
  \A k \in 1..Len(legacy_Grid_iter(g)) :
    TileSet_is_empty(legacy_Grid_get(g, legacy_Grid_iter(g)[k]))

\* Generator::is_any_empty
legacy_is_any_empty(g) ==
  \E k \in 1..Len(legacy_Grid_iter(g)) :
    TileSet_is_empty(legacy_Grid_get(g, legacy_Grid_iter(g)[k]))

\* Generator::adjacent without the filter that drops the position itself
legacy_adjacent_horizontalOnly(g, x, y) ==
  LET cands == << <<SatSub1(x), y>>, <<x + 1, y>> >>
      Keep(c) == c # <<x, y>> /\ c[1] < legacy_Grid_width(g) /\ c[2] < legacy_Grid_height(g)
  IN  SelectSeq(cands, Keep)

legacy_adjacent_withSelf(g, x, y) ==
  LET cands == << <<SatSub1(x), y>>, <<x + 1, y>>, <<x, SatSub1(y)>>, <<x, y + 1>> >>
      Keep(c) == c[1] < legacy_Grid_width(g) /\ c[2] < legacy_Grid_height(g)
  IN  SelectSeq(cands, Keep)

\* Generator::adjacent
legacy_adjacent(g, x, y) ==
  LET cands == << <<SatSub1(x), y>>, <<x + 1, y>>, <<x, SatSub1(y)>>, <<x, y + 1>> >>
      Keep(c) == c # <<x, y>> /\ c[1] < legacy_Grid_width(g) /\ c[2] < legacy_Grid_height(g)
  IN  SelectSeq(cands, Keep)

\* Generator::next_position without the `!set.is_collapsed()` filter
next_position_noFilter(g) ==
  LET it == legacy_Grid_iter(g)
      open == 1..Len(it)
      minimal == {k \in open : \A j \in open :
                    Len(legacy_Grid_get(g, it[k])) <= Len(legacy_Grid_get(g, it[j]))}
  IN  {it[k] : k \in minimal}

\* Generator::next_position: the positions the random draw can return; the
\* empty set stands for Err(MissingSet)
next_position(g) ==
  LET it == legacy_Grid_iter(g)
      open == {k \in 1..Len(it) : ~TileSet_is_collapsed(legacy_Grid_get(g, it[k]))}
      minimal == {k \in open : \A j \in open :
                    Len(legacy_Grid_get(g, it[k])) <= Len(legacy_Grid_get(g, it[j]))}
  IN  {it[k] : k \in minimal}

\* WeightedIndex::new over Tile::weight fails iff the sum is zero; the sample
\* is an index of positive weight
legacy_collapse_choices(set) == {i \in 1..Len(set) : set[i].weight > 0}

\* Generator::collapse on a non-empty set with the sampled index:
\* tile = set.tiles()[index]; set.collapse(&tile)
legacy_collapse_set(set, i) == TileSet_collapse(set, set[i])

\* Generator::propogate removing unsupported tiles without pushing the neighbour
RECURSIVE legacy_propogate_tiles_noPush(_, _, _, _, _, _)
legacy_propogate_tiles_noPush(st, clone, k, set, side, adj) ==
  IF k > Len(clone) THEN st
  ELSE LET tile == clone[k]
           st2 == IF TileSet_connects(set, tile, side) THEN st
                  ELSE [other |-> TileSet_remove(st.other, tile), stack |-> st.stack]
       IN  legacy_propogate_tiles_noPush(st2, clone, k + 1, set, side, adj)

\* Generator::propogate pushing the neighbour without looking for it on the stack
RECURSIVE legacy_propogate_tiles_pushAgain(_, _, _, _, _, _)
legacy_propogate_tiles_pushAgain(st, clone, k, set, side, adj) ==
  IF k > Len(clone) THEN st
  ELSE LET tile == clone[k]
           st2 == IF TileSet_connects(set, tile, side) THEN st
                  ELSE [other |-> TileSet_remove(st.other, tile),
                        stack |-> Append(st.stack, adj)]
       IN  legacy_propogate_tiles_pushAgain(st2, clone, k + 1, set, side, adj)

\* the loop `for tile in other.tiles().clone()` of Generator::propogate, from
\* the k-th tile of the clone on; st = [other, stack]
RECURSIVE legacy_propogate_tiles(_, _, _, _, _, _)
legacy_propogate_tiles(st, clone, k, set, side, adj) ==
  IF k > Len(clone) THEN st
  ELSE LET tile == clone[k]
           st2 == IF TileSet_connects(set, tile, side) THEN st
                  ELSE [other |-> TileSet_remove(st.other, tile),
                        stack |-> IF Contains(st.stack, adj) THEN st.stack
                                  ELSE Append(st.stack, adj)]
       IN  legacy_propogate_tiles(st2, clone, k + 1, set, side, adj)

\* the loop `for (x2, y2) in self.adjacent(x1, y1)` of Generator::propogate;
\* gs = [grid, stack]
RECURSIVE legacy_propogate_adjacent(_, _, _, _, _)
legacy_propogate_adjacent(gs, adjs, k, set, pos) ==
  IF k > Len(adjs) THEN gs
  ELSE LET adj == adjs[k]
           side == legacy_relative(pos, adj)
           other == legacy_Grid_get(gs.grid, adj)
           st == legacy_propogate_tiles([other |-> other, stack |-> gs.stack],
                                        other, 1, set, side, adj)
       IN  legacy_propogate_adjacent([grid |-> legacy_Grid_put(gs.grid, adj, st.other),
                                      stack |-> st.stack],
                                     adjs, k + 1, set, pos)

\* one iteration of `while let Some((x1, y1)) = stack.pop()` of Generator::propogate
legacy_propogate_pop(g, stk) ==
  LET pos == stk[Len(stk)]
      rest == SubSeq(stk, 1, Len(stk) - 1)
      set == legacy_Grid_get(g, pos)
  IN  legacy_propogate_adjacent([grid |-> g, stack |-> rest],
                                legacy_adjacent(g, pos[1], pos[2]), 1, set, pos)

\* the grid returned by Generator::run: grid.map(|s| s.tiles()[0])
legacy_run_output(g) == [y \in 1..Len(g) |-> [x \in 1..Len(g[y]) |-> g[y][x][1]]]

\* Grid::map reads as_vec()[0][0] first, and s.tiles()[0] panics on an empty set
legacy_run_output_panics(g) ==
  \/ Len(g) = 0
  \/ Len(g[1]) = 0
  \/ \E y \in 1..Len(g) : \E x \in 1..Len(g[y]) : Len(g[y][x]) = 0

(***************************************************************************)
(* The state machine: a host constructs a Generator and calls run (either  *)
(* implementation) or step (legacy) on it.                                 *)
(***************************************************************************)
VARIABLES
  impl,    \* "param": utility/generation/wfc.rs, "legacy": utility/wfc.rs
  width,   \* the width handed to Generator::new
  height,  \* the height handed to Generator::new
  tiles,   \* the tiles handed to Generator::new
  grid,    \* Generator.0: the grid of candidate lists
  pc,      \* "new", "idle", "loop", "observe", "collapse", "propogate", "check", "done"
  op,      \* the operation running or last returned: "none", "run", "step"
  index,   \* the position returned by next_index / next_position
  stack,   \* the worklist of propogate
  result,  \* what the last call returned
  out,     \* the grid returned by run on Ok
  pre      \* the grid as it was when the current observation started

vars == <<impl, width, height, tiles, grid, pc, op, index, stack, result, out, pre>>

Universe(i) == IF i = "param" THEN ParamTiles ELSE LegacyTiles

Init ==
  /\ impl \in {"param", "legacy"}
  /\ width \in 0..MaxCells
  /\ height \in 0..MaxCells
  /\ width * height <= MaxCells
  /\ tiles \in SeqsUpTo(Universe(impl), MaxCat)
  /\ grid = <<>>
  /\ pc = "new"
  /\ op = "none"
  /\ index = <<0, 0>>
  /\ stack = <<>>
  /\ result = "none"
  /\ out = <<>>
  /\ pre = <<>>

\* the operations of the implementation in use
Gen_is_collapsed(g) == IF impl = "param" THEN is_collapsed(g) ELSE legacy_is_collapsed(g)
Gen_is_any_empty(g) == IF impl = "param" THEN is_any_empty(g) ELSE legacy_is_any_empty(g)
Gen_observe(g) == IF impl = "param" THEN next_index(g) ELSE next_position(g)
Gen_choices(set) ==
  IF impl = "param" THEN collapse_choices(set) ELSE legacy_collapse_choices(set)
Gen_collapse_set(set, i) ==
  IF impl = "param" THEN collapse_set(set, i) ELSE legacy_collapse_set(set, i)
Gen_propogate_pop(g, stk) ==
  IF impl = "param" THEN propogate_pop(g, stk) ELSE legacy_propogate_pop(g, stk)
Gen_output_panics(g) ==
  IF impl = "param" THEN run_output_panics(g) ELSE legacy_run_output_panics(g)
Gen_output(g) == IF impl = "param" THEN run_output(g) ELSE legacy_run_output(g)

\* Generator::new: returns Self, there is no failing path
New ==
  /\ pc = "new"
  /\ grid' = IF impl = "param" THEN Generator_new(width, height, tiles)
             ELSE legacy_Generator_new(tiles, width, height)
  /\ pc' = "idle"
  /\ result' = "Self"
  /\ UNCHANGED <<impl, width, height, tiles, op, index, stack, out, pre>>

\* the host calls Generator::run
CallRun ==
  /\ pc = "idle"
  /\ op' = "run"
  /\ pc' = "loop"
  /\ result' = "none"
  /\ UNCHANGED <<impl, width, height, tiles, grid, index, stack, out, pre>>

\* the host calls Generator::step (legacy only)
CallStep ==
  /\ pc = "idle"
  /\ impl = "legacy"
  /\ op' = "step"
  /\ pc' = "observe"
  /\ result' = "none"
  /\ pre' = grid
  /\ UNCHANGED <<impl, width, height, tiles, grid, index, stack, out>>

\* a `?` or `return` leaving the running operation with value r
Return(r) ==
  /\ result' = r
  /\ pc' = IF op = "run" THEN "done" ELSE "idle"

\* run: the test of `while !self.is_collapsed()` and, when it ends the loop,
\* the construction of the returned grid
RunLoop ==
  /\ pc = "loop"
  /\ IF Gen_is_collapsed(grid)
     THEN /\ pc' = "done"
          /\ IF Gen_output_panics(grid)
             THEN result' = "Panic" /\ out' = out
             ELSE result' = "Ok" /\ out' = Gen_output(grid)
          /\ pre' = pre
     ELSE /\ pc' = "observe"
          /\ pre' = grid
          /\ UNCHANGED <<result, out>>
  /\ UNCHANGED <<impl, width, height, tiles, grid, op, index, stack>>

\* next_index / next_position
Observe ==
  /\ pc = "observe"
  /\ IF Gen_observe(grid) = {}
     THEN Return("Err(MissingSet)") /\ index' = index
     ELSE \E p \in Gen_observe(grid) : index' = p /\ pc' = "collapse" /\ result' = result
  /\ UNCHANGED <<impl, width, height, tiles, grid, op, stack, out, pre>>

\* collapse(index), and on Ok the entry of propogate(index): stack = vec![index]
Collapse ==
  /\ pc = "collapse"
  /\ LET set == IF impl = "param" THEN Grid_get(grid, index) ELSE legacy_Grid_get(grid, index)
     IN  IF Len(set) = 0
         THEN Return("Err(EmptySet)") /\ UNCHANGED <<grid, stack>>
         ELSE IF Gen_choices(set) = {}
         THEN Return("Err(InvalidWeight)") /\ UNCHANGED <<grid, stack>>
         ELSE \E i \in Gen_choices(set) :
                /\ grid' = IF impl = "param"
                           THEN Grid_put(grid, index, Gen_collapse_set(set, i))
                           ELSE legacy_Grid_put(grid, index, Gen_collapse_set(set, i))
                /\ stack' = <<index>>
                /\ pc' = "propogate"
                /\ result' = result
  /\ UNCHANGED <<impl, width, height, tiles, op, index, out, pre>>

\* propogate: one iteration of the worklist loop
Propogate ==
  /\ pc = "propogate"
  /\ stack # <<>>
  /\ LET gs == Gen_propogate_pop(grid, stack)
     IN  grid' = gs.grid /\ stack' = gs.stack
  /\ UNCHANGED <<impl, width, height, tiles, pc, op, index, result, out, pre>>

\* propogate: the worklist is empty, Ok(loops) is returned
PropogateReturn ==
  /\ pc = "propogate"
  /\ stack = <<>>
  /\ pc' = "check"
  /\ UNCHANGED <<impl, width, height, tiles, grid, op, index, stack, result, out, pre>>

\* the `if self.is_any_empty()` after propogate, in run and in step
Check ==
  /\ pc = "check"
  /\ IF Gen_is_any_empty(grid)
     THEN Return("Err(EmptySet)")
     ELSE IF op = "run"
     THEN pc' = "loop" /\ result' = result
     ELSE /\ pc' = "idle"
          /\ result' = IF Gen_is_collapsed(grid) THEN "Ok(true)" ELSE "Ok(false)"
  /\ UNCHANGED <<impl, width, height, tiles, grid, op, index, stack, out, pre>>

Next ==
  \/ New
  \/ CallRun
  \/ CallStep
  \/ RunLoop
  \/ Observe
  \/ Collapse
  \/ Propogate
  \/ PropogateReturn
  \/ Check

Spec == Init /\ [][Next]_vars

(***************************************************************************)
(* Vocabulary of the properties.                                           *)
(***************************************************************************)
\* the positions of the cells of grid g
Cells(g) == {<<x, y>> : x \in 0..(Grid_width(g) - 1), y \in 0..(Len(g) - 1)}

\* the content of cell p of grid g
CellAt(g, p) == g[p[2] + 1][p[1] + 1]

\* p and q differ by exactly 1 in exactly one coordinate
Adjacent4(p, q) ==
  \/ p[1] = q[1] /\ (p[2] = q[2] + 1 \/ q[2] = p[2] + 1)
  \/ p[2] = q[2] /\ (p[1] = q[1] + 1 \/ q[1] = p[1] + 1)

AnyCellEmpty(g) == \E p \in Cells(g) : Len(CellAt(g, p)) = 0

AllCellsCollapsed(g) == \A p \in Cells(g) : Len(CellAt(g, p)) = 1

\* every element of list a occurs in list b
Within(a, b) == \A i \in 1..Len(a) : \E j \in 1..Len(b) : a[i] = b[j]

ParamRunOk == impl = "param" /\ op = "run" /\ pc = "done" /\ result = "Ok"

LegacyStepOk ==
  impl = "legacy" /\ op = "step" /\ pc = "idle" /\ result \in {"Ok(true)", "Ok(false)"}

(***************************************************************************)
(* C1: when run of the P-parameterized Generator returns Ok(grid), every   *)
(* pair of 4-adjacent cells P, Q of the returned grid holds tiles V, W     *)
(* with V.layer == W.layer and                                             *)
(* V.socket_on(relative(P, Q)) == W.socket_on(opposite(relative(P, Q))).   *)
(***************************************************************************)
C1_RunOkAdjacentCompatible ==
  ParamRunOk =>
    \A p \in Cells(out) : \A q \in Cells(out) :
      Adjacent4(p, q) =>
        /\ CellAt(out, p).layer = CellAt(out, q).layer
        /\ socket_on(CellAt(out, p), relative(p, q))
             = socket_on(CellAt(out, q), opposite(relative(p, q)))

(***************************************************************************)
(* C2: in run of the P-parameterized Generator a contradiction is always   *)
(* detected: when propogate has returned and some cell of the grid is      *)
(* empty, the next step of run returns Err(EmptySet); run never returns Ok *)
(* with an empty cell and never reads element 0 of an empty list (panics). *)
(***************************************************************************)
C2_ContradictionDetected ==
  /\ [][(impl = "param" /\ op = "run" /\ pc = "check" /\ AnyCellEmpty(grid))
          => (pc' = "done" /\ result' = "Err(EmptySet)")]_vars
  /\ [](impl = "param" => result # "Panic")
  /\ [](ParamRunOk => ~AnyCellEmpty(grid))

\* run has returned Err(EmptySet) after a propagation that emptied a cell
C2_Witness ==
  /\ impl = "param" /\ op = "run" /\ pc = "done" /\ result = "Err(EmptySet)"
  /\ AnyCellEmpty(grid)
  /\ ~AnyCellEmpty(pre)

(***************************************************************************)
(* C3: when run of the P-parameterized Generator returns Ok, every cell of *)
(* the grid holds a candidate list of length exactly 1.                    *)
(***************************************************************************)
C3_RunOkAllCollapsed == ParamRunOk => AllCellsCollapsed(grid)

(***************************************************************************)
(* C4: every call of step of the legacy Generator that returns Ok leaves   *)
(* every cell of the grid with at least one candidate.                     *)
(***************************************************************************)
C4_StepOkNoEmptyCell ==
  LegacyStepOk => \A p \in Cells(grid) : Len(CellAt(grid, p)) >= 1

\* a step returned Ok after its propagation removed candidates from a cell
\* other than the observed one
C4_Witness ==
  /\ LegacyStepOk
  /\ \E p \in Cells(grid) : p # index /\ Len(CellAt(grid, p)) < Len(CellAt(pre, p))

(***************************************************************************)
(* C5: candidate sets never grow: in every step of collapse and propogate  *)
(* (inside step and run, on either Generator) every cell afterwards holds  *)
(* only variants it held before, and is not longer than before.            *)
(***************************************************************************)
C5_SetsNeverGrow ==
  [][pc # "new" =>
       /\ Cells(grid') = Cells(grid)
       /\ \A p \in Cells(grid) :
            /\ Within(CellAt(grid', p), CellAt(grid, p))
            /\ Len(CellAt(grid', p)) <= Len(CellAt(grid, p))]_vars

\* a collapse shrank the observed cell and the propagation shrank another one
C5_Witness ==
  /\ pc = "check"
  /\ Len(CellAt(grid, index)) < Len(CellAt(pre, index))
  /\ \E p \in Cells(grid) :
       p # index /\ Len(CellAt(grid, p)) < Len(CellAt(pre, p)) /\ Len(CellAt(grid, p)) > 0

\* some variant of list `set` is adjacency-compatible with the legacy variant v
\* of cell q across relative(q, p)
LegacySupported(v, q, p, set) ==
  \E i \in 1..Len(set) : legacy_connects(v, set[i], legacy_relative(q, p))

(***************************************************************************)
(* C6: after every step of the legacy Generator that returns Ok the grid   *)
(* is locally arc-consistent: for every cell Q, every variant v remaining  *)
(* in Q and every in-bounds 4-neighbour P of Q, some variant remaining in  *)
(* P is adjacency-compatible with v across relative(Q, P).                 *)
(***************************************************************************)
C6_StepOkArcConsistent ==
  LegacyStepOk =>
    \A q \in Cells(grid) : \A p \in Cells(grid) :
      Adjacent4(q, p) =>
        \A i \in 1..Len(CellAt(grid, q)) :
          LegacySupported(CellAt(grid, q)[i], q, p, CellAt(grid, p))

(***************************************************************************)
(* C6, as amended: after every step of the legacy Generator that returns   *)
(* Ok, arc-consistency holds towards the cells the step touched: for every *)
(* cell P that the step observed or whose candidate list it changed, every *)
(* in-bounds 4-neighbour Q of P and every variant v remaining in Q, some   *)
(* variant remaining in P is adjacency-compatible with v across            *)
(* relative(Q, P).                                                         *)
(***************************************************************************)
C6_StepOkArcConsistentTouched ==
  LegacyStepOk =>
    \A q \in Cells(grid) : \A p \in Cells(grid) :
      (Adjacent4(q, p) /\ (p = index \/ CellAt(grid, p) # CellAt(pre, p))) =>
        \A i \in 1..Len(CellAt(grid, q)) :
          LegacySupported(CellAt(grid, q)[i], q, p, CellAt(grid, p))

\* a step returned Ok after its propagation changed a cell that is not next to
\* the observed one, and a neighbour of a touched cell still holds two variants
C6_Witness ==
  /\ LegacyStepOk
  /\ \E p \in Cells(grid) :
       /\ p # index /\ ~Adjacent4(p, index)
       /\ CellAt(grid, p) # CellAt(pre, p)
  /\ \E q \in Cells(grid) : \E p \in Cells(grid) :
       /\ Adjacent4(q, p)
       /\ (p = index \/ CellAt(grid, p) # CellAt(pre, p))
       /\ Len(CellAt(grid, q)) > 1

(***************************************************************************)
(* C7: per-cell state machine (Superposed: more than one candidate,        *)
(* Collapsed: exactly one, Contradicted: none): every change of a cell     *)
(* starts from Superposed; Collapsed and Contradicted are terminal, a cell *)
(* with exactly one candidate never changes its list afterwards.           *)
(***************************************************************************)
C7_CellStateMachine ==
  [][pc # "new" =>
       \A p \in Cells(grid) :
         CellAt(grid', p) # CellAt(grid, p) => Len(CellAt(grid, p)) > 1]_vars

(***************************************************************************)
(* C7, as amended: every change of a cell starts from Superposed, or takes *)
(* a Collapsed cell to Contradicted (propagation removes its only variant);*)
(* Contradicted is terminal, and a Collapsed cell never changes its list   *)
(* except by being emptied.                                                *)
(***************************************************************************)
C7_CellStateMachineAmended ==
  [][pc # "new" =>
       \A p \in Cells(grid) :
         CellAt(grid', p) # CellAt(grid, p) =>
           \/ Len(CellAt(grid, p)) > 1
           \/ Len(CellAt(grid, p)) = 1 /\ Len(CellAt(grid', p)) = 0]_vars

\* the observed cell was collapsed to one variant and propagation then emptied it
C7_Witness ==
  /\ pc \in {"propogate", "check"}
  /\ Len(CellAt(pre, index)) > 1
  /\ Len(CellAt(grid, index)) = 0

\* the only variant of the catalog does not connect to itself across a side
\* along which the grid has at least 2 cells
SingleNotSelfCompatible ==
  /\ Len(tiles) = 1
  /\ IF impl = "param"
     THEN \/ width >= 2 /\ \E s \in {Left, Right} :
                 ~connects_to(transformed(tiles[1]), transformed(tiles[1]), s)
          \/ height >= 2 /\ \E s \in {Top, Bottom} :
                 ~connects_to(transformed(tiles[1]), transformed(tiles[1]), s)
     ELSE \/ width >= 2 /\ \E s \in {legacy_Left, legacy_Right} :
                 ~legacy_connects(tiles[1], tiles[1], s)
          \/ height >= 2 /\ \E s \in {legacy_Top, legacy_Bottom} :
                 ~legacy_connects(tiles[1], tiles[1], s)

(***************************************************************************)
(* C8: for a catalog of exactly one variant that is not adjacency-         *)
(* compatible with itself across some side, and a grid with at least 2     *)
(* cells along that axis, run (legacy and P-parameterized) fails with      *)
(* Err(EmptySet).                                                          *)
(***************************************************************************)
C8_SingleVariantFails ==
  (op = "run" /\ pc = "done" /\ SingleNotSelfCompatible) => result = "Err(EmptySet)"

InvalidConfig == width = 0 \/ height = 0 \/ Dedup(tiles) = <<>>

FirstStep1x1 ==
  /\ impl = "legacy" /\ width = 1 /\ height = 1
  /\ op = "step"
  /\ pre = legacy_Generator_new(tiles, 1, 1)

\* the catalog has at least two variants, no two of them equal, and some
\* variant of positive weight
DistinctWeightedCatalog ==
  /\ Len(tiles) >= 2
  /\ \A i \in 1..Len(tiles) : \A j \in 1..Len(tiles) : i # j => tiles[i] # tiles[j]
  /\ \E i \in 1..Len(tiles) : tiles[i].weight > 0

WeightOf(t) == IF impl = "param" THEN t.tile.weight ELSE t.weight

\* every candidate of the non-empty list has weight 0
AllWeightZero(set) == Len(set) > 0 /\ \A i \in 1..Len(set) : WeightOf(set[i]) = 0

(***************************************************************************)
(* C12: collapse on a non-empty cell whose candidates all have weight 0    *)
(* returns Err(InvalidWeight) and leaves the cell unchanged; with a        *)
(* catalog in which every variant has weight 0 no collapse ever succeeds   *)
(* (propagation is never entered).                                         *)
(***************************************************************************)
C12_ZeroWeightInvalid ==
  /\ [][(pc = "collapse" /\ AllWeightZero(CellAt(grid, index)))
          => /\ result' = "Err(InvalidWeight)"
             /\ grid' = grid
             /\ pc' = IF op = "run" THEN "done" ELSE "idle"]_vars
  /\ [](AllWeightZero(tiles) => pc \notin {"propogate", "check"})

\* a call ended with Err(InvalidWeight) on a two-variant catalog of weight 0
C12_Witness ==
  /\ pc \in {"done", "idle"} /\ op # "none"
  /\ result = "Err(InvalidWeight)"
  /\ Len(Dedup(tiles)) = 2 /\ AllWeightZero(tiles)
  /\ grid = pre

\* variant t supports variant u across side s: equal layers, and the
\* transformed socket of t on s equals the transformed socket of u on the
\* opposite side, position for position
Supports(t, u, s) ==
  /\ transformed(t).layer = transformed(u).layer
  /\ transformed(t).sockets[s + 1] = transformed(u).sockets[opposite(s) + 1]

\* the variants of list other that some variant of list set supports across s
SupportedBy(set, other, s) ==
  LET Keep(u) == \E i \in 1..Len(set) : Supports(set[i], u, s)
  IN  SelectSeq(other, Keep)

(***************************************************************************)
(* C17: in the propagation of the P-parameterized Generator, when cell P   *)
(* is popped, a variant u of a neighbouring cell Q is kept iff some        *)
(* variant t of P has t.layer = u.layer and the transformed socket of t on *)
(* s = relative(P, Q) equal, position for position and without mirroring,  *)
(* to the transformed socket of u on opposite(s); no other cell changes.   *)
(***************************************************************************)
C17_AdjacencyPredicate ==
  [][(impl = "param" /\ pc = "propogate" /\ stack # <<>>)
       => \A q \in Cells(grid) :
            CellAt(grid', q) =
              IF Adjacent4(stack[Len(stack)], q)
              THEN SupportedBy(CellAt(grid, stack[Len(stack)]), CellAt(grid, q),
                               relative(stack[Len(stack)], q))
              ELSE CellAt(grid, q)]_vars

\* propagation from the observed cell removed a variant of a neighbour and kept
\* one whose facing socket is not a palindrome
C17_Witness ==
  /\ impl = "param" /\ pc = "check"
  /\ \E q \in Cells(grid) :
       /\ Adjacent4(index, q)
       /\ Len(CellAt(grid, q)) >= 1
       /\ Len(CellAt(grid, q)) < Len(CellAt(pre, q))
       /\ LET sock == socket_on(transformed(CellAt(grid, q)[1]),
                                opposite(relative(index, q)))
          IN  sock # reversed(sock)

(***************************************************************************)
(* The end-to-end scenarios on the P-parameterized Generator, with sockets *)
(* of P = 1 symbol: layer isolation on a 1x2 grid, the two-variant catalog *)
(* A (Top = Bottom = [0], Left = Right = [1]) and B (Top = Bottom = [1],   *)
(* Left = Right = [0]) on a 3x3 grid, and catalogs of two variants none of *)
(* which connects to any across the horizontal sides on a 2x1 grid.        *)
(***************************************************************************)
LayerA == [tile |-> [id |-> 0, layer |-> 0, sockets |-> << <<0>>, <<0>>, <<0>>, <<0>> >>,
                     weight |-> 1],
           transform |-> NoTransform]
LayerB == [tile |-> [id |-> 1, layer |-> 1, sockets |-> << <<0>>, <<0>>, <<0>>, <<0>> >>,
                     weight |-> 1],
           transform |-> NoTransform]

CheckA == [tile |-> [id |-> 0, layer |-> 0, sockets |-> << <<0>>, <<1>>, <<1>>, <<0>> >>,
                     weight |-> 1],
           transform |-> NoTransform]
CheckB == [tile |-> [id |-> 1, layer |-> 0, sockets |-> << <<1>>, <<0>>, <<0>>, <<1>> >>,
                     weight |-> 1],
           transform |-> NoTransform]

\* layer-0 tiles with one-symbol sockets and positive weights
PairTiles ==
  {[tile |-> [id |-> i, layer |-> 0, sockets |-> << <<t>>, <<l>>, <<r>>, <<0>> >>,
              weight |-> w],
    transform |-> NoTransform] : i \in {0}, t \in {0, 1}, l \in {0, 1}, r \in {0, 1},
                                 w \in {1, 2}}

\* no ordered pair of (untransformed, layer-0) variants of the catalog, a
\* variant with itself included, connects across the horizontal sides: no
\* Right socket equals a Left socket
HorizontallyUnsatisfiable(cat) ==
  \A i \in 1..Len(cat) : \A j \in 1..Len(cat) :
    cat[i].tile.sockets[Right + 1] # cat[j].tile.sockets[Left + 1]

UnsatCatalogs ==
  {cat \in [1..2 -> PairTiles] : cat[1] # cat[2] /\ HorizontallyUnsatisfiable(cat)}

LayerScenario == impl = "param" /\ width = 1 /\ height = 2
CheckerScenario == impl = "param" /\ width = 3 /\ height = 3
UnsatScenario == impl = "param" /\ width = 2 /\ height = 1

InitScenario ==
  /\ impl = "param"
  /\ \/ width = 1 /\ height = 2 /\ tiles \in {<<LayerA, LayerB>>, <<LayerB, LayerA>>}
     \/ width = 3 /\ height = 3 /\ tiles \in {<<CheckA, CheckB>>, <<CheckB, CheckA>>}
     \/ width = 2 /\ height = 1 /\ tiles \in UnsatCatalogs
  /\ grid = <<>>
  /\ pc = "new"
  /\ op = "none"
  /\ index = <<0, 0>>
  /\ stack = <<>>
  /\ result = "none"
  /\ out = <<>>
  /\ pre = <<>>

NextScenario ==
  \/ New
  \/ CallRun
  \/ RunLoop
  \/ Observe
  \/ Collapse
  \/ Propogate
  \/ PropogateReturn
  \/ Check

SpecScenario == InitScenario /\ [][NextScenario]_vars

(***************************************************************************)
(* C13: layer isolation: with variants A (layer 0) and B (layer 1) whose   *)
(* sockets are all [0] and a grid of width 1 and height 2, run fails with  *)
(* Err(EmptySet) for every random choice.                                  *)
(***************************************************************************)
C13_LayerIsolationFails ==
  (LayerScenario /\ pc = "done") => result = "Err(EmptySet)"

(***************************************************************************)
(* C13, as amended: with variants A (layer 0) and B (layer 1) whose        *)
(* sockets are all [0] and a grid of width 1 and height 2, run returns Ok  *)
(* for every random choice, and both cells of the returned grid hold the   *)
(* same tile (the one collapsed first): layers never mix.                  *)
(***************************************************************************)
C13_LayerIsolationUniform ==
  (LayerScenario /\ pc = "done") =>
    /\ result = "Ok"
    /\ CellAt(out, <<0, 0>>) = CellAt(out, <<0, 1>>)
    /\ CellAt(out, <<0, 0>>) = transformed(CellAt(grid, index)[1])

\* the run ended with both cells on layer 1 after observing the lower cell
C13_Witness ==
  /\ LayerScenario /\ pc = "done" /\ result = "Ok"
  /\ index = <<0, 1>>
  /\ CellAt(out, <<0, 0>>).layer = 1 /\ CellAt(out, <<0, 1>>).layer = 1

(***************************************************************************)
(* C14: checkerboard scenario: with the catalog A (Top = Bottom = [0],     *)
(* Left = Right = [1]), B (Top = Bottom = [1], Left = Right = [0]) and a   *)
(* 3x3 grid, every successful run returns a checkerboard: every pair of    *)
(* 4-adjacent cells holds different variants.                              *)
(***************************************************************************)
C14_Checkerboard ==
  (CheckerScenario /\ ParamRunOk) =>
    \A p \in Cells(out) : \A q \in Cells(out) :
      Adjacent4(p, q) => CellAt(out, p) # CellAt(out, q)

(***************************************************************************)
(* C14, as amended: with that catalog and a 3x3 grid, every successful run *)
(* returns a uniform grid: every pair of 4-adjacent cells holds the same   *)
(* variant (A only connects to A and B only to B, on every side), the one  *)
(* chosen by the first collapse.                                           *)
(***************************************************************************)
C14_Uniform ==
  (CheckerScenario /\ ParamRunOk) =>
    /\ \A p \in Cells(out) : \A q \in Cells(out) :
         Adjacent4(p, q) => CellAt(out, p) = CellAt(out, q)
    /\ \A p \in Cells(out) : CellAt(out, p) = transformed(CellAt(grid, index)[1])

\* a successful run on the 3x3 grid that observed the centre cell
C14_Witness ==
  /\ CheckerScenario /\ ParamRunOk
  /\ index = <<1, 1>>
  /\ Cardinality(Cells(out)) = 9
  /\ CellAt(out, <<2, 2>>) = transformed(CheckB)

(***************************************************************************)
(* C15: unsatisfiable pair: with a two-variant catalog on layer 0 in which *)
(* no ordered pair of variants (a variant with itself included) connects   *)
(* across the horizontal sides, and a grid of width 2 and height 1, run    *)
(* fails with Err(EmptySet) for every random choice.                       *)
(***************************************************************************)
C15_UnsatisfiablePairFails ==
  (UnsatScenario /\ pc = "done") => result = "Err(EmptySet)"

\* the run on the 2x1 grid ended with Err(EmptySet) and both cells empty,
\* after collapsing the right cell
C15_Witness ==
  /\ UnsatScenario /\ pc = "done" /\ result = "Err(EmptySet)"
  /\ index = <<1, 0>>
  /\ Len(CellAt(pre, <<0, 0>>)) = 2
  /\ Len(CellAt(grid, <<0, 0>>)) = 0 /\ Len(CellAt(grid, <<1, 0>>)) = 0

(***************************************************************************)
(* Building a catalog: TileSet::add_tile (utility/generation/tile.rs) and  *)
(* AsTiles::as_tiles for Grid<T> (utility/wfc.rs) generate the 16          *)
(* transforms of one base tile, which are then handed to Generator::new.   *)
(***************************************************************************)
\* Rotation::D0.into_iter(): [D0, D90, D180, D270] rotated left by 0
Rotation_into_iter == <<0, 1, 2, 3>>

\* Transform::new
Transform_new(rotation, flip_x, flip_y) ==
  [rotation |-> rotation, flip_x |-> flip_x, flip_y |-> flip_y]

\* the four transforms TileSet::add_tile pushes for one rotation
add_tile_rotation(tile, rotation) ==
  << [tile |-> tile, transform |-> Transform_new(rotation, FALSE, FALSE)],
     [tile |-> tile, transform |-> Transform_new(rotation, TRUE, FALSE)],
     [tile |-> tile, transform |-> Transform_new(rotation, FALSE, TRUE)],
     [tile |-> tile, transform |-> Transform_new(rotation, TRUE, TRUE)] >>

\* TileSet::add_tile followed by add_all_transformed: the tiles of the set
\* extended with the 16 transforms
add_tile(set, tile) ==
  set \o add_tile_rotation(tile, Rotation_into_iter[1])
      \o add_tile_rotation(tile, Rotation_into_iter[2])
      \o add_tile_rotation(tile, Rotation_into_iter[3])
      \o add_tile_rotation(tile, Rotation_into_iter[4])

\* Grid::transpose with the inner loop starting at x instead of 0
transpose_fromX(g) ==
  [x \in 1..legacy_Grid_width(g) |->
     [y \in 1..(legacy_Grid_height(g) - x + 1) |-> g[y + x - 1][x]]]

\* Grid::transpose
transpose(g) ==
  [x \in 1..legacy_Grid_width(g) |-> [y \in 1..legacy_Grid_height(g) |-> g[y][x]]]

\* AsSocket::as_socket for a row: the nodes of its first, middle and last element
as_socket(row, layers) ==
  << <<row[1], layers[1]>>, <<row[(Len(row) \div 2) + 1], layers[2]>>,
     <<row[Len(row)], layers[3]>> >>

\* AsTiles::side_socket for Grid<T>
side_socket(g, side, layers) ==
  IF side = legacy_Left THEN as_socket(transpose(g)[1], layers)
  ELSE IF side = legacy_Top THEN as_socket(g[1], layers)
  ELSE IF side = legacy_Right
  THEN as_socket(transpose(g)[legacy_Grid_height(transpose(g))], layers)
  ELSE as_socket(g[legacy_Grid_height(g)], layers)

\* AsTiles::all_sockets
all_sockets(g, layers) ==
  << side_socket(g, legacy_Left, layers[legacy_Left + 1]),
     side_socket(g, legacy_Top, layers[legacy_Top + 1]),
     side_socket(g, legacy_Right, layers[legacy_Right + 1]),
     side_socket(g, legacy_Bottom, layers[legacy_Bottom + 1]) >>

\* Tile::new
Tile_new(id, sockets, rotation, flip_x, flip_y, weight) ==
  [id |-> id, sockets |-> sockets, rotation |-> rotation,
   flip_x |-> flip_x, flip_y |-> flip_y, weight |-> weight]

\* AsTiles::as_tiles: rotation, flip_x and flip_y nested in this order, then
\* tiles.dedup()
as_tiles(g, id, layers, weight) ==
  Dedup([k \in 1..16 |->
           Tile_new(id, all_sockets(g, layers), (k - 1) \div 4,
                    ((k - 1) \div 2) % 2 = 1, (k - 1) % 2 = 1, weight)])

\* the base tiles of the P-parameterized builder: sockets of P = 3 symbols
SocketValues == {<<a, b, c>> : a \in {0, 1}, b \in {0, 1}, c \in {0, 1}}

BaseTiles ==
  {[id |-> 0, layer |-> 0, sockets |-> <<t, l, r, b>>, weight |-> 1] :
     t \in SocketValues, l \in SocketValues, r \in SocketValues, b \in SocketValues}

\* the sources of the legacy builder: 3x3 grids of symbols
SourceGrids ==
  {<< <<a, b, c>>, <<d, 0, e>>, <<f, g, h>> >> :
     a \in {0, 1}, b \in {0, 1}, c \in {0, 1}, d \in {0, 1}, e \in {0, 1},
     f \in {0, 1}, g \in {0, 1}, h \in {0, 1}}

\* every node on layer 0
ZeroLayers == << <<0, 0, 0>>, <<0, 0, 0>>, <<0, 0, 0>>, <<0, 0, 0>> >>

InitBuild ==
  /\ impl \in {"param", "legacy"}
  /\ width = 1
  /\ height = 1
  /\ tiles = <<>>
  /\ grid = <<>>
  /\ pc = "build"
  /\ op = "none"
  /\ index = <<0, 0>>
  /\ stack = <<>>
  /\ result = "none"
  /\ out = <<>>
  /\ pre = <<>>

\* the host builds the catalog from one base tile
AddTile ==
  /\ pc = "build"
  /\ IF impl = "param"
     THEN \E tile \in BaseTiles : tiles' = add_tile(tiles, tile)
     ELSE \E g \in SourceGrids : tiles' = as_tiles(g, 0, ZeroLayers, 1)
  /\ pc' = "new"
  /\ UNCHANGED <<impl, width, height, grid, op, index, stack, result, out, pre>>

NextBuild ==
  \/ AddTile
  \/ New

SpecBuild == InitBuild /\ [][NextBuild]_vars

\* the catalog was generated from one base tile whose four sockets are all
\* the same palindrome
SymmetricBase ==
  /\ tiles # <<>>
  /\ IF impl = "param"
     THEN /\ \A sd \in 1..4 : tiles[1].tile.sockets[sd] = tiles[1].tile.sockets[1]
          /\ tiles[1].tile.sockets[1] = Reverse(tiles[1].tile.sockets[1])
     ELSE /\ \A sd \in 1..4 : tiles[1].sockets[sd] = tiles[1].sockets[1]
          /\ tiles[1].sockets[1][1] = tiles[1].sockets[1][3]

(***************************************************************************)
(* C16: for one base tile whose four sockets are all the same palindrome,  *)
(* the catalog obtained by generating its 16 transforms (add_tile /        *)
(* as_tiles) and deduplicating (in the builder and in Generator::new)      *)
(* contains exactly 1 variant.                                             *)
(***************************************************************************)
C16_SymmetricTileOneVariant ==
  (pc = "idle" /\ SymmetricBase) => Len(CellAt(grid, <<0, 0>>)) = 1

\* the side 90 degrees counterclockwise of a side of the P-parameterized tile
CounterClockwise(side) ==
  IF side = Top THEN Left
  ELSE IF side = Right THEN Top
  ELSE IF side = Bottom THEN Right
  ELSE Bottom

(***************************************************************************)
(* C18: for every base tile of the P-parameterized builder and every side  *)
(* s, the variant with rotation = 1 quarter turn and no flips has on s the *)
(* socket the base tile had on the side 90 degrees counterclockwise of s   *)
(* (Top <- Left, Right <- Top, Bottom <- Right, Left <- Bottom), with its  *)
(* symbols not reversed.                                                   *)
(***************************************************************************)
C18_RotationQuarterTurn ==
  impl = "param" =>
    \A i \in 1..Len(tiles) :
      tiles[i].transform = Transform_new(1, FALSE, FALSE) =>
        \A sd \in {Top, Left, Right, Bottom} :
          socket_on(transformed(tiles[i]), sd)
            = socket_on(tiles[i].tile, CounterClockwise(sd))

\* a socket with its symbols in reverse order
Mirror(sock) == [k \in 1..Len(sock) |-> sock[Len(sock) + 1 - k]]

\* the socket array <<Top, Left, Right, Bottom>> mirrored across the vertical axis
FlipXArray(a) == <<Mirror(a[1]), a[3], a[2], Mirror(a[4])>>

\* the socket array mirrored across the horizontal axis
FlipYArray(a) == <<a[4], Mirror(a[2]), Mirror(a[3]), a[1]>>

\* the array shifted cyclically to the right by k positions
ShiftRightArray(a, k) == [i \in 1..4 |-> a[((i - 1 + 4 - k) % 4) + 1]]

\* flips first, then the shift by the rotation count
FlipThenRotate(tt) ==
  LET a0 == tt.tile.sockets
      a1 == IF tt.transform.flip_x THEN FlipXArray(a0) ELSE a0
      a2 == IF tt.transform.flip_y THEN FlipYArray(a1) ELSE a1
  IN  ShiftRightArray(a2, tt.transform.rotation)

(***************************************************************************)
(* C19: TransformedTile::transformed applies flips before rotation: for    *)
(* every base tile and each of the 16 transforms its socket array is the   *)
(* base array after (1) if flip_x, swapping Left and Right and reversing   *)
(* Top and Bottom, (2) if flip_y, swapping Top and Bottom and reversing    *)
(* Left and Right, (3) shifting the array right by the rotation count.     *)
(***************************************************************************)
C19_FlipsBeforeRotation ==
  impl = "param" =>
    \A i \in 1..Len(tiles) :
      /\ transformed(tiles[i]).sockets = FlipThenRotate(tiles[i])
      /\ transformed(tiles[i]).layer = tiles[i].tile.layer
      /\ transformed(tiles[i]).weight = tiles[i].tile.weight
      /\ transformed(tiles[i]).id = tiles[i].tile.id

\* the 16 transforms of a base tile with four different sockets, none of them
\* a palindrome, have been generated; flipping and rotating do not commute on it
C19_Witness ==
  /\ impl = "param" /\ pc = "new" /\ Len(tiles) = 16
  /\ \A a \in 1..4 : \A b \in 1..4 :
       a # b => tiles[1].tile.sockets[a] # tiles[1].tile.sockets[b]
  /\ \A a \in 1..4 : tiles[1].tile.sockets[a] # Mirror(tiles[1].tile.sockets[a])
  /\ \E i \in 1..16 :
       /\ tiles[i].transform = Transform_new(1, TRUE, FALSE)
       /\ transformed(tiles[i]).sockets # tiles[1].tile.sockets

\* the transformed socket arrays, the layers and the weights of two variants
\* are equal (legacy nodes carry their layer)
SameTransformed(v, w) ==
  IF impl = "param"
  THEN /\ transformed(v).sockets = transformed(w).sockets
       /\ v.tile.layer = w.tile.layer
       /\ v.tile.weight = w.tile.weight
  ELSE /\ legacy_transformed(v).sockets = legacy_transformed(w).sockets
       /\ v.weight = w.weight

(***************************************************************************)
(* C20: two variants compare equal (the == of dedup, retain and remove) if *)
(* and only if their transformed socket arrays, their layer and their      *)
(* weight are equal, whatever transform produced them.                     *)
(***************************************************************************)
C20_VariantEquality ==
  \A i \in 1..Len(tiles) : \A j \in 1..Len(tiles) :
    (tiles[i] = tiles[j]) <=> SameTransformed(tiles[i], tiles[j])

(***************************************************************************)
(* The grid right after construction.                                      *)
(***************************************************************************)
\* Generator::new has returned and no run or step was called yet
FreshlyBuilt == pc = "idle" /\ op = "none"

\* C21: immediately after Generator::new(w, h, cat), in both implementations,
\* the grid has h rows of w cells, every cell holds the same candidate list
\* (same content, same order, hence the same length), and that list is the
\* one new computed from the catalog
C21_FreshCellsIdentical ==
  FreshlyBuilt =>
    /\ Len(grid) = height
    /\ \A y \in 1..Len(grid) : Len(grid[y]) = width
    /\ \A y \in 1..Len(grid) : \A x \in 1..Len(grid[y]) :
         /\ grid[y][x] = grid[1][1]
         /\ grid[y][x] = Dedup(tiles)

C21_Witness ==
  /\ FreshlyBuilt
  /\ width = 1
  /\ height = 2
  /\ Len(grid[2][1]) = 2

(***************************************************************************)
(* Catalogs long enough to hold equal variants that are not neighbours, on *)
(* grids of one row.                                                       *)
(***************************************************************************)
InitCatalog ==
  /\ impl \in {"param", "legacy"}
  /\ width \in 1..2
  /\ height = 1
  /\ tiles \in SeqsUpTo(Universe(impl), MaxLongCat)
  /\ grid = <<>>
  /\ pc = "new"
  /\ op = "none"
  /\ index = <<0, 0>>
  /\ stack = <<>>
  /\ result = "none"
  /\ out = <<>>
  /\ pre = <<>>

SpecCatalog == InitCatalog /\ [][Next]_vars

\* no two positions of list s hold equal variants
NoDuplicates(s) == \A i, j \in 1..Len(s) : i # j => s[i] # s[j]

\* C22: after Generator::new no cell's candidate list contains two equal
\* variants, whatever the order of the input catalog
C22_FreshCellsDuplicateFree ==
  FreshlyBuilt => \A p \in Cells(grid) : NoDuplicates(CellAt(grid, p))

\* C23: legacy TileSet::collapse(tile) leaves the set empty or with exactly
\* the one element tile, for every candidate list of the grid and every tile;
\* and a successful Generator::collapse(x, y) leaves cell (x, y) with length 1
C23_CollapsePostCondition ==
  /\ [](impl = "legacy" /\ pc # "new" =>
          \A p \in Cells(grid) : \A tile \in LegacyTiles :
            LET after == TileSet_collapse(CellAt(grid, p), tile)
            IN  after = <<>> \/ after = <<tile>>)
  /\ [][impl = "legacy" /\ pc = "collapse" /\ pc' = "propogate"
          => Len(CellAt(grid', index)) = 1]_vars

\* C24: for the P-parameterized Generator, is_collapsed() is true iff every
\* cell of the width x height grid has a candidate list of length exactly 1
C24_IsCollapsedIffAllSingletons ==
  impl = "param" /\ pc # "new" => (is_collapsed(grid) <=> AllCellsCollapsed(grid))

(***************************************************************************)
(* Termination of propogate.  run and step are sequential code: once the   *)
(* worklist loop is entered the thread keeps executing its iterations and  *)
(* then the return, so both steps are weakly fair.                         *)
(***************************************************************************)
\* `while let Some(index) = stack.pop()` alone: an iteration can start exactly
\* when the worklist is not empty.  Every step of Next taken from such a state
\* is a Propogate step, so the fairness condition below is weak fairness of
\* Propogate, with an enabling condition read off the pop.
PopOnly ==
  /\ pc = "propogate"
  /\ stack # <<>>
  /\ stack' = SubSeq(stack, 1, Len(stack) - 1)
  /\ UNCHANGED <<impl, width, height, tiles, grid, pc, op, index, result, out, pre>>

\* the largest grids and the longest catalogs of Init
InitFair == Init /\ width * height = MaxCells /\ Len(tiles) = MaxCat

SpecFair ==
  InitFair /\ [][Next]_vars /\ WF_vars(PopOnly \/ Propogate) /\ WF_vars(PropogateReturn)

\* the candidates of row y of grid g from column x on
RECURSIVE RowCandidates(_, _, _)
RowCandidates(g, y, x) ==
  IF x > Len(g[y]) THEN 0 ELSE Len(g[y][x]) + RowCandidates(g, y, x + 1)

\* the total number of candidates of grid g from row y on
RECURSIVE TotalCandidates(_, _)
TotalCandidates(g, y) ==
  IF y > Len(g) THEN 0 ELSE RowCandidates(g, y, 1) + TotalCandidates(g, y + 1)

\* C26: propogate terminates (its worklist empties and it returns), each
\* iteration pushes at most as many positions as it removes variants, and the
\* grid never holds more than W * H * |catalog| variants to remove
C26_PropagationTerminates ==
  /\ [][pc = "propogate" /\ stack # <<>> =>
          /\ Len(stack') - (Len(stack) - 1)
               <= TotalCandidates(grid, 1) - TotalCandidates(grid', 1)
          /\ \/ TotalCandidates(grid', 1) < TotalCandidates(grid, 1)
             \/ grid' = grid /\ Len(stack') = Len(stack) - 1]_vars
  /\ [](pc # "new" => TotalCandidates(grid, 1) <= width * height * Len(tiles))
  /\ (pc = "propogate" ~> (pc = "check" /\ stack = <<>>))

C26_Witness ==
  /\ pc = "check"
  /\ Len(grid) * Grid_width(grid) >= 3
  /\ TotalCandidates(grid, 1) + 2 <= TotalCandidates(pre, 1)

(***************************************************************************)
(* Side::relative on neighbouring positions.                               *)
(***************************************************************************)
\* C27: for every pair of 4-adjacent positions A and B of the grid,
\* Side::relative(A, B) is the opposite of Side::relative(B, A), in the Side of
\* generation/tile.rs, of utility/wfc.rs and of utility/generation.rs
C27_RelativeAntisymmetric ==
  pc # "new" =>
    \A a, b \in Cells(grid) :
      Adjacent4(a, b) =>
        /\ relative(a, b) = opposite(relative(b, a))
        /\ legacy_relative(a, b) = legacy_opposite(legacy_relative(b, a))
        /\ generation_relative(a, b) = generation_opposite(generation_relative(b, a))

C27_Witness ==
  /\ pc = "propogate"
  /\ Len(stack) >= 2
  /\ width = 2
  /\ height = 2
  /\ \E a, b \in Cells(grid) : Adjacent4(a, b) /\ relative(a, b) = Bottom

(***************************************************************************)
(* The steps of TransformedTile::flipped and ::rotated taken alone.        *)
(***************************************************************************)
\* the flip_x step of flipped() applied to tile t
FlipXStep(t) == flipped([tile |-> t, transform |-> Transform_new(0, TRUE, FALSE)])

\* the flip_y step of flipped() applied to tile t
FlipYStep(t) == flipped([tile |-> t, transform |-> Transform_new(0, FALSE, TRUE)])

\* rotated() with Rotation::D90 applied to tile t
QuarterTurn(t) == rotated([tile |-> t, transform |-> Transform_new(1, FALSE, FALSE)])

\* C28: on the socket array of every base tile, the flip_x step applied twice
\* gives the array back, so does the flip_y step applied twice, and so does a
\* quarter-turn rotation applied four times
C28_TransformInvolutions ==
  impl = "param" /\ pc = "new" /\ tiles # <<>> =>
    \A i \in 1..Len(tiles) :
      LET t == tiles[i].tile
      IN  /\ FlipXStep(FlipXStep(t)).sockets = t.sockets
          /\ FlipYStep(FlipYStep(t)).sockets = t.sockets
          /\ QuarterTurn(QuarterTurn(QuarterTurn(QuarterTurn(t)))).sockets = t.sockets

C28_Witness ==
  /\ impl = "param" /\ pc = "new" /\ Len(tiles) = 16
  /\ FlipXStep(tiles[1].tile).sockets # tiles[1].tile.sockets
  /\ FlipYStep(tiles[1].tile).sockets # tiles[1].tile.sockets
  /\ QuarterTurn(tiles[1].tile).sockets # tiles[1].tile.sockets
  /\ QuarterTurn(QuarterTurn(tiles[1].tile)).sockets # tiles[1].tile.sockets
  /\ \E s \in 1..4 : tiles[1].tile.sockets[s] # Mirror(tiles[1].tile.sockets[s])

(***************************************************************************)
(* utility/generation/tile.rs: TileSet::next_id, gen_socket, add_raw, with *)
(* sockets of P = 2 nodes and usize scaled down to 0..MaxUsize.            *)
(***************************************************************************)
P == 2

\* the largest id of a non-empty set: max_by_key(|t| t.tile().id())
max_id(set) ==
  CHOOSE m \in {set[i].tile.id : i \in 1..Len(set)} :
    \A i \in 1..Len(set) : set[i].tile.id <= m

\* `id + 1` in next_id overflows usize
next_id_overflows(set) == set # <<>> /\ max_id(set) = MaxUsize

\* TileSet::next_id returning the largest id itself
next_id_noIncrement(set) == IF set = <<>> THEN 0 ELSE max_id(set)

\* TileSet::next_id, with the wrapping addition of a build without overflow checks
next_id(set) == IF set = <<>> THEN 0 ELSE (max_id(set) + 1) % (MaxUsize + 1)

\* the for_each of gen_socket from the i-th element of raw on
RECURSIVE gen_socket_for_each(_, _, _, _)
gen_socket_for_each(nodes, raw, i, take) ==
  IF i > Len(raw) \/ i > take THEN nodes
  ELSE gen_socket_for_each([nodes EXCEPT ![i] = raw[i]], raw, i + 1, take)

\* TileSet::gen_socket with take(P - 1)
gen_socket_takeShort(raw) == gen_socket_for_each([k \in 1..P |-> 0], raw, 1, P - 1)

\* TileSet::gen_socket: nodes = [0; P], then nodes[i] = n for the first P elements
gen_socket(raw) == gen_socket_for_each([k \in 1..P |-> 0], raw, 1, P)

\* TileSet::add_raw with the id a build without overflow checks computes
add_raw(set, raw) ==
  LET id == next_id(set)
      sockets == [side \in 1..4 |->
                    IF side = Top + 1 THEN gen_socket(raw.nodes[1])
                    ELSE IF side = Left + 1 THEN gen_socket(raw.nodes[2])
                    ELSE IF side = Right + 1 THEN gen_socket(raw.nodes[3])
                    ELSE gen_socket(raw.nodes[4])]
  IN  add_tile(set, [id |-> id, layer |-> raw.layer, sockets |-> sockets,
                     weight |-> raw.weight])

\* the raw tiles handed to add_raw: node lists shorter than, as long as and
\* longer than P
Raws ==
  {[layer |-> 0, weight |-> 1, nodes |-> <<t, l, <<1>>, b>>] :
     t \in {<<>>, <<1>>, <<0, 1>>, <<1, 0, 1>>},
     l \in {<<>>, <<1, 1, 1>>},
     b \in {<<0, 1>>, <<1, 1>>}}

\* the tiles handed to add_tile directly: any id, sockets of P zeros
IdTiles ==
  {[id |-> id, layer |-> 0, sockets |-> [side \in 1..4 |-> [k \in 1..P |-> 0]],
    weight |-> 1] : id \in 0..MaxUsize}

InitRaw ==
  /\ impl = "param"
  /\ width = 1
  /\ height = 1
  /\ tiles = <<>>
  /\ grid = <<>>
  /\ pc = "build"
  /\ op = "none"
  /\ index = <<0, 0>>
  /\ stack = <<>>
  /\ result = "none"
  /\ out = <<>>
  /\ pre = <<>>

\* set.add_raw(raw); pre records the raw tile.  When id + 1 overflows, a build
\* with overflow checks panics and one without them wraps.
AddRaw ==
  /\ pc = "build"
  /\ Len(tiles) < 16 * MaxAdds
  /\ \E raw \in Raws :
       /\ pre' = raw
       /\ \/ tiles' = add_raw(tiles, raw) /\ pc' = pc /\ result' = "none"
          \/ next_id_overflows(tiles) /\ tiles' = tiles /\ pc' = "done" /\ result' = "panic"
  /\ op' = "add_raw"
  /\ UNCHANGED <<impl, width, height, grid, index, stack, out>>

\* set.add_tile(tile) with a tile of the caller's choice
AddBaseTile ==
  /\ pc = "build"
  /\ Len(tiles) < 16 * MaxAdds
  /\ \E tile \in IdTiles : tiles' = add_tile(tiles, tile)
  /\ op' = "add_tile"
  /\ result' = "none"
  /\ UNCHANGED <<impl, width, height, grid, pc, index, stack, out, pre>>

NextRaw ==
  \/ AddRaw
  \/ AddBaseTile

SpecRaw == InitRaw /\ [][NextRaw]_vars

\* the step appended 16 variants of one tile to the set, one for each
\* combination of rotation, flip_x and flip_y
AppendedSixteen ==
  /\ Len(tiles') = Len(tiles) + 16
  /\ SubSeq(tiles', 1, Len(tiles)) = tiles
  /\ \A k \in 1..16 : tiles'[Len(tiles) + k].tile = tiles'[Len(tiles) + 1].tile
  /\ {tiles'[Len(tiles) + k].transform : k \in 1..16}
       = {Transform_new(r, fx, fy) : r \in 0..3, fx \in BOOLEAN, fy \in BOOLEAN}

\* the step was an add_raw call that returned
AddRawReturned == op' = "add_raw" /\ tiles' # tiles

\* the id given by the step is greater than every id the set held before
FreshIdGreater ==
  \A i \in 1..Len(tiles) : tiles'[Len(tiles')].tile.id > tiles[i].tile.id

PaddedOrTruncated(socket, input) ==
  /\ Len(socket) = P
  /\ \A i \in 1..P : socket[i] = IF i <= Len(input) THEN input[i] ELSE 0

\* C30: the socket gen_socket builds has exactly P nodes; node i is input[i]
\* for i < min(P, len), 0 for len <= i < P, and the input from index P on is
\* dropped
C30_GenSocketPadsAndTruncates ==
  op = "add_raw" /\ pc = "build" =>
    \A side \in 1..4 :
      PaddedOrTruncated(tiles[Len(tiles)].tile.sockets[side], pre.nodes[side])

C30_Witness ==
  /\ op = "add_raw"
  /\ pc = "build"
  /\ Len(pre.nodes[Top + 1]) = P + 1
  /\ Len(pre.nodes[Left + 1]) = 0
  /\ Len(pre.nodes[Bottom + 1]) = P
  /\ tiles[Len(tiles)].tile.sockets[Top + 1] = <<1, 0>>

(***************************************************************************)
(* collections/grid.rs: the order and extent of Grid::iter.                *)
(***************************************************************************)
\* C31: for a width x height grid of the P-parameterized solver, iter() yields
\* exactly width * height items, every cell once, in row-major order: row 0
\* left to right, then row 1, and so on
C31_IterRowMajorWholeGrid ==
  impl = "param" /\ pc # "new" =>
    /\ Len(Grid_iter(grid)) = Grid_width(grid) * Grid_height(grid)
    /\ \A k \in 1..Len(Grid_iter(grid)) :
         Grid_iter(grid)[k] = Grid_get(grid, Grid_enumerate(grid)[k])

(***************************************************************************)
(* utility/grid.rs: a host builds a Grid of symbols with Grid::new and     *)
(* calls get, get_mut, set, flip_x, flip_y, transpose and the rotations.   *)
(***************************************************************************)
\* Grid::flip_x: every row reversed
legacy_Grid_flip_x(g) == [y \in 1..Len(g) |-> Reverse(g[y])]

\* Grid::flip_y: the rows reversed
legacy_Grid_flip_y(g) == Reverse(g)

\* Grid::rotate_left
rotate_left(g) == legacy_Grid_flip_y(transpose(g))

\* Grid::rotate_right
rotate_right(g) == legacy_Grid_flip_x(transpose(g))

\* Grid::rotate_twice
rotate_twice(g) == legacy_Grid_flip_y(legacy_Grid_flip_x(g))

InitGrid ==
  /\ impl = "legacy"
  /\ width \in 0..MaxSide
  /\ height \in 0..MaxSide
  /\ tiles = <<>>
  /\ grid = <<>>
  /\ pc = "new"
  /\ op = "none"
  /\ index = <<0, 0>>
  /\ stack = <<>>
  /\ result = "none"
  /\ out = <<>>
  /\ pre = <<>>

\* Grid::new(width, height, fill)
GridNew ==
  /\ pc = "new"
  /\ \E fill \in {0, 1} : grid' = legacy_Grid_new(width, height, fill)
  /\ pc' = "grid"
  /\ op' = "new"
  /\ UNCHANGED <<impl, width, height, tiles, index, stack, result, out, pre>>

\* `self[y][x]` panics when a Vec index is out of range
IndexPanics(g, x, y) == ~(y < Len(g) /\ x < Len(g[y + 1]))

\* Grid::get(x, y) and Grid::get_mut(x, y); out holds the value referred to
GridGet ==
  /\ pc = "grid"
  /\ \E x \in 0..MaxSide, y \in 0..MaxSide :
       /\ index' = <<x, y>>
       /\ IF ~contains_coords(grid, x, y)
          THEN result' = "Err(OutOfBounds)" /\ out' = <<>>
          ELSE IF IndexPanics(grid, x, y)
          THEN result' = "panic" /\ out' = <<>>
          ELSE result' = "Ok" /\ out' = <<legacy_Grid_get(grid, <<x, y>>)>>
  /\ op' \in {"get", "get_mut"}
  /\ pre' = <<>>
  /\ UNCHANGED <<impl, width, height, tiles, grid, pc, stack>>

\* Grid::set(x, y, value); pre holds the grid before the call, out the value
GridSet ==
  /\ pc = "grid"
  /\ \E x \in 0..MaxSide, y \in 0..MaxSide, value \in {0, 1} :
       /\ index' = <<x, y>>
       /\ out' = <<value>>
       /\ IF ~contains_coords(grid, x, y)
          THEN result' = "Err(OutOfBounds)" /\ grid' = grid
          ELSE IF IndexPanics(grid, x, y)
          THEN result' = "panic" /\ grid' = grid
          ELSE result' = "Ok" /\ grid' = legacy_Grid_put(grid, <<x, y>>, value)
  /\ op' = "set"
  /\ pre' = grid
  /\ UNCHANGED <<impl, width, height, tiles, pc, stack>>

\* the frame of the calls that rearrange the whole grid
Rearranged(name, g) ==
  /\ grid' = g
  /\ op' = name
  /\ index' = <<0, 0>>
  /\ result' = "none"
  /\ out' = <<>>
  /\ pre' = <<>>
  /\ UNCHANGED <<impl, width, height, tiles, pc, stack>>

GridFlipX ==
  /\ pc = "grid"
  /\ Rearranged("flip_x", legacy_Grid_flip_x(grid))

GridFlipY ==
  /\ pc = "grid"
  /\ Rearranged("flip_y", legacy_Grid_flip_y(grid))

GridTranspose ==
  /\ pc = "grid"
  /\ Rearranged("transpose", transpose(grid))

GridRotateLeft ==
  /\ pc = "grid"
  /\ Rearranged("rotate_left", rotate_left(grid))

GridRotateRight ==
  /\ pc = "grid"
  /\ Rearranged("rotate_right", rotate_right(grid))

GridRotateTwice ==
  /\ pc = "grid"
  /\ Rearranged("rotate_twice", rotate_twice(grid))

NextGrid ==
  \/ GridNew
  \/ GridGet
  \/ GridSet
  \/ GridFlipX
  \/ GridFlipY
  \/ GridTranspose
  \/ GridRotateLeft
  \/ GridRotateRight
  \/ GridRotateTwice

SpecGrid == InitGrid /\ [][NextGrid]_vars

\* the width and the height of grid g read off its rows
RowsOf(g) == Len(g)
ColsOf(g) == IF Len(g) = 0 THEN 0 ELSE Len(g[1])

\* the last call was get, get_mut or set
Accessed == pc = "grid" /\ op \in {"get", "get_mut", "set"}

\* C32: get, get_mut and set return Err(OutOfBounds(x, y)) exactly when
\* x >= width or y >= height and succeed otherwise; a set that returns Err
\* leaves every cell unchanged, and a successful set changes only cell (x, y)
C32_BoundsChecked ==
  Accessed =>
    LET x == index[1]
        y == index[2]
        outside == x >= ColsOf(IF op = "set" THEN pre ELSE grid)
                     \/ y >= RowsOf(IF op = "set" THEN pre ELSE grid)
    IN  /\ result = IF outside THEN "Err(OutOfBounds)" ELSE "Ok"
        /\ op # "set" /\ ~outside => out = <<grid[y + 1][x + 1]>>
        /\ op = "set" /\ outside => grid = pre
        /\ op = "set" /\ ~outside =>
             /\ RowsOf(grid) = RowsOf(pre)
             /\ \A r \in 1..RowsOf(pre) :
                  /\ Len(grid[r]) = Len(pre[r])
                  /\ \A c \in 1..Len(pre[r]) :
                       grid[r][c] = IF r = y + 1 /\ c = x + 1 THEN out[1] ELSE pre[r][c]

C32_Witness ==
  /\ Accessed
  /\ op = "set"
  /\ result = "Ok"
  /\ index = <<1, 0>>
  /\ RowsOf(grid) = 2
  /\ grid # pre
  /\ grid[1][1] # grid[1][2]

\* every row of the grid has the length width()
Rectangular == \A r \in 1..Len(grid) : Len(grid[r]) = legacy_Grid_width(grid)

\* C33: every grid produced by Grid::new and by any sequence of flip_x,
\* flip_y, transpose and rotations is rectangular, and width() == 0 if and
\* only if height() == 0
C33_ShapeInvariant ==
  pc = "grid" =>
    /\ Rectangular
    /\ legacy_Grid_width(grid) = 0 <=> legacy_Grid_height(grid) = 0

\* C33 amended: every such grid is rectangular, and height() == 0 implies
\* width() == 0
C33_ShapeInvariantOneWay ==
  pc = "grid" =>
    /\ Rectangular
    /\ legacy_Grid_height(grid) = 0 => legacy_Grid_width(grid) = 0

C33_Witness ==
  /\ pc = "grid"
  /\ op = "rotate_right"
  /\ legacy_Grid_width(grid) = 2
  /\ legacy_Grid_height(grid) = 1
  /\ width = 1
  /\ grid[1][1] # grid[1][2]

(***************************************************************************)
(* The observation, the worklist and the frame of the solver's steps.      *)
(***************************************************************************)
\* C34: whenever next_position / next_index returns Ok(pos), pos is a cell of
\* the grid that is not collapsed, its candidate count is the minimum over all
\* non-collapsed cells, and the call does not modify the grid
C34_MinimumEntropyObservation ==
  [][pc = "observe" /\ pc' = "collapse" =>
       /\ grid' = grid
       /\ index' \in Cells(grid)
       /\ Len(CellAt(grid, index')) # 1
       /\ \A q \in Cells(grid) :
            Len(CellAt(grid, q)) # 1 => Len(CellAt(grid, index')) <= Len(CellAt(grid, q))]_vars

C34_Witness ==
  /\ pc = "collapse"
  /\ Len(CellAt(grid, index)) = 2
  /\ \E q \in Cells(grid) : Len(CellAt(grid, q)) = 1
  /\ \E q \in Cells(grid) : q # index /\ Len(CellAt(grid, q)) = 2

\* C35: propogate pops the last position of the worklist; the positions it
\* pushes are appended behind the rest, each one a neighbour of the popped
\* cell that lost at least one variant in this iteration and was not on the
\* worklist; the worklist never holds a position twice and holds only
\* positions of the grid
C35_WorklistDiscipline ==
  /\ [][pc = "propogate" /\ stack # <<>> =>
          LET popped == stack[Len(stack)]
              rest == SubSeq(stack, 1, Len(stack) - 1)
          IN  /\ Len(stack') >= Len(rest)
              /\ SubSeq(stack', 1, Len(rest)) = rest
              /\ \A k \in (Len(rest) + 1)..Len(stack') :
                   /\ Adjacent4(popped, stack'[k])
                   /\ Len(CellAt(grid', stack'[k])) < Len(CellAt(grid, stack'[k]))
                   /\ ~Contains(rest, stack'[k])]_vars
  /\ [](pc = "propogate" =>
          /\ NoDuplicates(stack)
          /\ \A k \in 1..Len(stack) : stack[k] \in Cells(grid))

C35_Witness ==
  /\ impl = "legacy"
  /\ op = "step"
  /\ pc = "propogate"
  /\ Len(stack) = 2
  /\ stack[1] # index
  /\ stack[2] # index
  /\ \E q \in Cells(grid) : Len(CellAt(grid, q)) < Len(CellAt(pre, q)) /\ stack[2] = q

(***************************************************************************)
(* Termination of run.  run is sequential code: each of its steps is taken *)
(* once it is reached.                                                     *)
(***************************************************************************)
\* a step of the running call of Generator::run
RunStep ==
  /\ op = "run"
  /\ (RunLoop \/ Observe \/ Collapse \/ PopOnly \/ Propogate \/ PropogateReturn \/ Check)

SpecCatalogFair == SpecCatalog /\ WF_vars(RunStep)

\* C36: for the legacy Generator, every call of run returns (Ok or Err) after
\* finitely many iterations, for every catalog and every grid size
C36_LegacyRunTerminates ==
  (impl = "legacy" /\ op = "run" /\ pc = "loop") ~> (pc = "done")

\* C37: contradiction flooding in the legacy Generator: when a call to
\* propogate has ended (the run is about to test the grid) and is_any_empty()
\* holds, is_empty() holds too: one empty cell means every cell is empty.
C37_ContradictionFloods ==
  (impl = "legacy" /\ pc = "check" /\ legacy_is_any_empty(grid))
    => legacy_is_empty(grid)

\* a grid of several cells has been flooded: propogate ended with all cells empty
C37_Witness ==
  /\ impl = "legacy"
  /\ pc = "check"
  /\ width * height >= 2
  /\ legacy_is_any_empty(grid)
  /\ \A p \in Cells(grid) : Len(CellAt(grid, p)) = 0

\* C38: frame of collapse, in both generators: a call of collapse changes at
\* most the candidate list of the addressed cell and leaves every other cell
\* and the shape of the grid as they were; when it returns Err no cell changes.
C38_CollapseFrame ==
  [][pc = "collapse" =>
       /\ Cells(grid') = Cells(grid)
       /\ \A p \in Cells(grid) : p # index => CellAt(grid', p) = CellAt(grid, p)
       /\ (pc' # "propogate" => grid' = grid)]_vars

\* collapse has just returned Ok on a grid of several cells: the addressed cell
\* was narrowed to one candidate while another cell still has several
C38_Witness ==
  /\ op = "step"
  /\ pc = "propogate"
  /\ stack = <<index>>
  /\ Len(CellAt(grid, index)) = 1
  /\ Len(CellAt(pre, index)) > 1
  /\ \E p \in Cells(grid) : p # index /\ Len(CellAt(grid, p)) > 1

(***************************************************************************)
(* Symmetry of the connection test.                                        *)
(***************************************************************************)
\* the tiles the P generator compares: the catalog's tiles as stored and as
\* transformed() presents them to connects_to
ComparedTiles ==
  {tiles[i].tile : i \in 1..Len(tiles)} \cup {transformed(tiles[i]) : i \in 1..Len(tiles)}

\* C39: the connection test is symmetric up to the opposite side: for all tiles
\* V, W of the catalog a generator was constructed with and every side s, V
\* connects to W on s exactly when W connects to V on s.opposite(), for
\* Tile::connects_to and for the legacy Tile::connects
C39_ConnectsSymmetric ==
  (pc = "idle" /\ result = "Self") =>
    /\ impl = "param" =>
         \A V, W \in ComparedTiles : \A s \in {Top, Left, Right, Bottom} :
           connects_to(V, W, s) = connects_to(W, V, opposite(s))
    /\ impl = "legacy" =>
         \A i, j \in 1..Len(tiles) :
           \A s \in {legacy_Left, legacy_Top, legacy_Right, legacy_Bottom} :
             legacy_connects(tiles[i], tiles[j], s)
               = legacy_connects(tiles[j], tiles[i], legacy_opposite(s))

\* a generator constructed with a P catalog of two different tiles that connect
\* on one side and not on another
C39_Witness ==
  /\ impl = "param"
  /\ pc = "idle"
  /\ result = "Self"
  /\ \E V, W \in ComparedTiles :
       /\ V # W
       /\ \E s \in {Top, Left, Right, Bottom} : connects_to(V, W, s)
       /\ \E s \in {Top, Left, Right, Bottom} : ~connects_to(V, W, s)

(***************************************************************************)
(* Rotation of the artwork against rotation of the sockets, legacy builder. *)
(***************************************************************************)
\* the source grids whose derived sockets are those of catalog tile t
SourcesOf(t) == {g \in SourceGrids : all_sockets(g, ZeroLayers) = t.sockets}

\* C40: socket rotation agrees with artwork rotation in the legacy pipeline:
\* for every square symbol grid g, the four sockets derived by all_sockets from
\* g rotated clockwise by Grid::rotate_right equal the sockets of the tile
\* derived from g after Tile::rotated with Rotation::Once.
C40_SocketRotationMatchesArtwork ==
  (impl = "legacy" /\ pc # "build") =>
    \A k \in 1..Len(tiles) :
      (tiles[k].rotation = 1 /\ ~tiles[k].flip_x /\ ~tiles[k].flip_y) =>
        \A g \in SourcesOf(tiles[k]) :
          all_sockets(rotate_right(g), ZeroLayers) = legacy_rotated(tiles[k]).sockets

====
